---- MODULE Spec2Model ----
(***************************************************************************)
(* Cerno: review-state machine, bulk marking and review-session lifecycle  *)
(* of the interactive review mode (cerno.py, cerno_pkg/fs.py).             *)
(*                                                                         *)
(* Five specifications share the variables:                                *)
(*   SpecApi   - the review-state functions of cerno_pkg/fs.py applied in  *)
(*               any order to findings in any persisted state;             *)
(*   Spec      - one process run of main(): scan selection, resume prompt, *)
(*               severity menu, finding list, finding view, bulk mark and  *)
(*               the session finalization of the loop head and of the      *)
(*               finally block;                                            *)
(*   SpecCmp   - compare_scans of cerno_pkg/cross_scan.py on any findings; *)
(*   SpecHosts - compare_scans and get_host_vulnerability_history on any   *)
(*               links of hosts to findings;                               *)
(*   SpecWf    - the workflow mapper as main() loads it: construction from *)
(*               one document, then an additional document.                *)
(***************************************************************************)
EXTENDS Integers, Sequences, FiniteSets, TLC

\* ---------------------------------------------------------------- bounds
NumFindings == 3
MaxTime == 2
MaxOps == 3

\* Two imported scans; findings are dealt to them in turn.
Scans == {1, 2}
Findings == 1..NumFindings
\* findings.scan_id: the scan a finding belongs to
scan_of(f) == IF f % 2 = 1 THEN 1 ELSE 2
\* finding.get_hosts_and_ports(): every third finding affects no host
has_hosts(f) == (f % 3) # 0

\* ------------------------------------------------------- review states
ReviewStates == {"pending", "reviewed", "completed"}
NoSession == [none |-> TRUE]
NoFinding == 0

\* datetime.isoformat() / datetime.fromisoformat(): the session row holds the
\* start time as text
isoformat(t) == <<"iso", t>>
fromisoformat(s) == s[2]

\* Outcome of the store write inside db_transaction():
\*   "ok" commits, "fail" raises an Exception subclass and rolls back.
StoreOutcomes == {"ok", "fail"}

\* Finding.update_review_state(new_state, conn) inside `with db_transaction()`:
\* either the row (and the object's attribute) takes the new state, or the
\* transaction raises and nothing changes.
update_review_state(rs, f, new_state, store) ==
    IF store = "ok"
    THEN [raised |-> FALSE, rs |-> [rs EXCEPT ![f] = new_state]]
    ELSE [raised |-> TRUE, rs |-> rs]

\* Mutant: mark_review_complete without the "already complete" check.
mark_review_complete_NoGuard(rs, f, store) ==
    LET u == update_review_state(rs, f, "completed", store)
    IN IF u.raised
       THEN [result |-> FALSE, raised |-> FALSE, msg |-> "failed", rs |-> u.rs]
       ELSE [result |-> TRUE, raised |-> FALSE, msg |-> "marked", rs |-> u.rs]

\* Mutant: mark_review_complete writing the state "reviewed".
mark_review_complete_WritesReviewed(rs, f, store) ==
    IF rs[f] = "completed"
    THEN [result |-> FALSE, raised |-> FALSE, msg |-> "already", rs |-> rs]
    ELSE LET u == update_review_state(rs, f, "reviewed", store)
         IN IF u.raised
            THEN [result |-> FALSE, raised |-> FALSE, msg |-> "failed", rs |-> u.rs]
            ELSE [result |-> TRUE, raised |-> FALSE, msg |-> "marked", rs |-> u.rs]

\* fs.mark_review_complete(plugin_file): result is the returned bool, raised
\* tells whether an exception leaves the function, msg which message printed.
mark_review_complete(rs, f, store) ==
    IF rs[f] = "completed"
    THEN [result |-> FALSE, raised |-> FALSE, msg |-> "already", rs |-> rs]
    ELSE LET u == update_review_state(rs, f, "completed", store)
         IN IF u.raised
            THEN [result |-> FALSE, raised |-> FALSE, msg |-> "failed", rs |-> u.rs]
            ELSE [result |-> TRUE, raised |-> FALSE, msg |-> "marked", rs |-> u.rs]

\* Mutant: undo_review_complete without the "not complete" check.
undo_review_complete_NoGuard(rs, f, store) ==
    LET u == update_review_state(rs, f, "pending", store)
    IN IF u.raised
       THEN [result |-> FALSE, raised |-> FALSE, msg |-> "failed", rs |-> u.rs]
       ELSE [result |-> TRUE, raised |-> FALSE, msg |-> "undone", rs |-> u.rs]

\* fs.undo_review_complete(plugin_file)
undo_review_complete(rs, f, store) ==
    IF rs[f] # "completed"
    THEN [result |-> FALSE, raised |-> FALSE, msg |-> "not_complete", rs |-> rs]
    ELSE LET u == update_review_state(rs, f, "pending", store)
         IN IF u.raised
            THEN [result |-> FALSE, raised |-> FALSE, msg |-> "failed", rs |-> u.rs]
            ELSE [result |-> TRUE, raised |-> FALSE, msg |-> "undone", rs |-> u.rs]

\* ------------------------------------------------------------ variables
VARIABLES
    review_state,        \* findings.review_state, per finding
    sessions,            \* sessions table: scan -> row or NoSession
    last_reviewed_at,    \* scans.last_reviewed_at, 0 = never
    now,                 \* datetime.now()
    pc,                  \* position of main()
    scan_id,             \* main: scan_id (0 = no scan selected)
    session_start_time,  \* main: session_start_time
    previous_session,    \* main: previous_session (load_session result)
    reviewed_total,      \* main: reviewed_total
    completed_total,     \* main: completed_total
    skipped_total,       \* main: skipped_total
    chosen,              \* browse_file_list: finding handed to the view
    candidates,          \* browse_file_list: candidates of the bulk mark
    idx,                 \* bulk loop: position in candidates
    marked,              \* bulk loop: marked
    summary,             \* bulk loop: the "Summary:" line, <<>> before it
    confirmed,           \* bulk mark: answer of the confirmation prompt
    entry,               \* how the current scan was entered (history)
    calls,               \* the latest review-state calls, oldest first
    nops,                \* number of review operations so far (bounded)
    db,                  \* cross-scan: scans, plugins, findings, hosts and links
    out,                 \* the latest call, its arguments and result
    workflow_mapper      \* main: workflow_mapper (NoMapper before construction)

vars == <<review_state, sessions, last_reviewed_at, now, pc, scan_id,
          session_start_time, previous_session, reviewed_total,
          completed_total, skipped_total, chosen, candidates, idx, marked,
          summary, confirmed, entry, calls, nops, db, out, workflow_mapper>>

mainVars == <<sessions, last_reviewed_at, now, pc, scan_id,
              session_start_time, previous_session, reviewed_total,
              completed_total, skipped_total, chosen, candidates, idx,
              marked, summary, confirmed, entry>>

\* The tables read by cerno_pkg/cross_scan.py; the review loop does not touch them.
cmpVars == <<db, out, workflow_mapper>>
NoDb == [none |-> TRUE]
NoCall == [op |-> "none"]
NoMapper == [none |-> TRUE]

\* One review-state call as the caller sees it.
CallRecord(op, f, store, pre, r, cBefore, cAfter) ==
    [op |-> op, f |-> f, store |-> store, pre |-> pre, post |-> r.rs[f],
     result |-> r.result, raised |-> r.raised, msg |-> r.msg,
     completed_before |-> cBefore, completed_after |-> cAfter]

\* SpecApi keeps the last two calls, Spec the last one.
Remember(c) ==
    IF pc # "api" THEN <<c>>
    ELSE IF Len(calls) < 2 THEN Append(calls, c) ELSE <<calls[2], c>>

\* ------------------------------------------------------------- SpecApi
InitApi ==
    /\ review_state \in [Findings -> {"pending", "completed"}]
    /\ sessions = [s \in Scans |-> NoSession]
    /\ last_reviewed_at = [s \in Scans |-> 0]
    /\ now = 1
    /\ pc = "api"
    /\ scan_id = 0
    /\ session_start_time = 1
    /\ previous_session = NoSession
    /\ reviewed_total = <<>>
    /\ completed_total = <<>>
    /\ skipped_total = <<>>
    /\ chosen = NoFinding
    /\ candidates = <<>>
    /\ idx = 0
    /\ marked = 0
    /\ summary = <<>>
    /\ confirmed = "unasked"
    /\ entry = "none"
    /\ calls = <<>>
    /\ nops = 0
    /\ db = NoDb
    /\ out = NoCall
    /\ workflow_mapper = NoMapper

ApiMark ==
    /\ pc = "api"
    /\ nops < MaxOps
    /\ \E f \in Findings, store \in StoreOutcomes :
         LET r == mark_review_complete(review_state, f, store)
         IN /\ review_state' = r.rs
            /\ calls' = Remember(CallRecord("mark", f, store, review_state[f], r, 0, 0))
    /\ nops' = nops + 1
    /\ UNCHANGED mainVars
    /\ UNCHANGED cmpVars

ApiUndo ==
    /\ pc = "api"
    /\ nops < MaxOps
    /\ \E f \in Findings, store \in StoreOutcomes :
         LET r == undo_review_complete(review_state, f, store)
         IN /\ review_state' = r.rs
            /\ calls' = Remember(CallRecord("undo", f, store, review_state[f], r, 0, 0))
    /\ nops' = nops + 1
    /\ UNCHANGED mainVars
    /\ UNCHANGED cmpVars

NextApi ==
    \/ ApiMark
    \/ ApiUndo

SpecApi == InitApi /\ [][NextApi]_vars

\* ---------------------------------------------------------------- Spec
\* The open session row of scan s left behind by an earlier run of the program;
\* rows of different scans were started at different times, all before this
\* run. open_rows is the number of open rows the scan has in the table.
OldSession(s) ==
    [session_start |-> isoformat(1 - s), reviewed_count |-> 1,
     completed_count |-> 0, skipped_count |-> 0, open_rows |-> 1]

\* session.load_session(scan_id): the scan's row, or None
load_session(tbl, s) == tbl[s]

\* session.save_session(scan_id, session_start, reviewed_count, completed_count,
\* skipped_count): writes the scan's session row, updating the open row when
\* there is one and inserting a row otherwise
\* Mutant: save_session inserts a row even when the scan has an open one.
save_session_AlwaysInserts(tbl, s, start, r, c, k) ==
    [tbl EXCEPT ![s] = [session_start |-> isoformat(start), reviewed_count |-> r,
                        completed_count |-> c, skipped_count |-> k,
                        open_rows |-> IF tbl[s] = NoSession THEN 1
                                      ELSE tbl[s].open_rows + 1]]

save_session(tbl, s, start, r, c, k) ==
    [tbl EXCEPT ![s] = [session_start |-> isoformat(start), reviewed_count |-> r,
                        completed_count |-> c, skipped_count |-> k,
                        open_rows |-> 1]]

\* session.delete_session(scan_id): removes the scan's session row
delete_session(tbl, s) == [tbl EXCEPT ![s] = NoSession]

RECURSIVE SortedSeq(_)
\* the records of a query as a list; the store returns them by ascending id
SortedSeq(S) ==
    IF S = {} THEN <<>>
    ELSE LET m == CHOOSE x \in S : \A y \in S : x <= y
         IN <<m>> \o SortedSeq(S \ {m})

\* browse_file_list: unreviewed = records whose review_state != "completed"
unreviewed(rs, s) == {f \in Findings : scan_of(f) = s /\ rs[f] # "completed"}

\* main: "if reviewed_total or completed_total or skipped_total"
work_done == reviewed_total # <<>> \/ completed_total # <<>> \/ skipped_total # <<>>

\* browse_file_list session time indicator: elapsed = datetime.now() - session_start_time
elapsed_seconds == now - session_start_time

Init ==
    /\ review_state = [f \in Findings |-> "pending"]
    /\ sessions \in {t \in [Scans -> {NoSession} \cup {OldSession(s) : s \in Scans}] :
                        \A s \in Scans : t[s] \in {NoSession, OldSession(s)}}
    /\ last_reviewed_at = [s \in Scans |-> 0]
    /\ now = 1
    /\ pc = "scan_menu"
    /\ scan_id = 0
    /\ session_start_time = 1
    /\ previous_session = NoSession
    /\ reviewed_total = <<>>
    /\ completed_total = <<>>
    /\ skipped_total = <<>>
    /\ chosen = NoFinding
    /\ candidates = <<>>
    /\ idx = 0
    /\ marked = 0
    /\ summary = <<>>
    /\ confirmed = "unasked"
    /\ entry = "none"
    /\ calls = <<>>
    /\ nops = 0
    /\ db = NoDb
    /\ out = NoCall
    /\ workflow_mapper = NoMapper

storeVars == <<review_state, sessions, last_reviewed_at>>
counterVars == <<reviewed_total, completed_total, skipped_total>>
bulkVars == <<candidates, idx, marked, summary, confirmed>>

\* The clock advances while the program waits at the scan menu.
Tick ==
    /\ pc = "scan_menu"
    /\ now < MaxTime
    /\ now' = now + 1
    /\ UNCHANGED <<storeVars, pc, scan_id, session_start_time, previous_session, entry,
                   counterVars, chosen, bulkVars, calls, nops>>
    /\ UNCHANGED cmpVars

\* "Choose scan": q/quit, KeyboardInterrupt, or Scan.get_all() failing -> return
ChooseScanQuit ==
    /\ pc = "scan_menu"
    /\ pc' = "finally"
    /\ UNCHANGED <<storeVars, now, scan_id, session_start_time, previous_session, entry,
                   counterVars, chosen, bulkVars, calls, nops>>
    /\ UNCHANGED cmpVars

\* "Choose scan": a valid number; then load_session(scan_id)
SelectScan ==
    /\ pc = "scan_menu"
    /\ \E s \in Scans :
         /\ scan_id' = s
         /\ previous_session' = load_session(sessions, s)
         /\ entry' = IF load_session(sessions, s) # NoSession
                     THEN "asking" ELSE "fresh"
         /\ pc' = IF load_session(sessions, s) # NoSession
                  THEN "resume_prompt" ELSE "severity_menu"
    /\ UNCHANGED <<storeVars, now, session_start_time, counterVars, chosen,
                   bulkVars, calls, nops>>
    /\ UNCHANGED cmpVars

\* Mutant: resuming takes the time of the resume as the start.
ResumeYes_UsesNow ==
    /\ pc = "resume_prompt"
    /\ session_start_time' = now
    /\ entry' = "resumed"
    /\ pc' = "severity_menu"
    /\ UNCHANGED <<storeVars, now, scan_id, previous_session, counterVars,
                   chosen, bulkVars, calls, nops>>
    /\ UNCHANGED cmpVars

\* "Resume this session?" answered yes
ResumeYes ==
    /\ pc = "resume_prompt"
    /\ session_start_time' = fromisoformat(previous_session.session_start)
    /\ entry' = "resumed"
    /\ pc' = "severity_menu"
    /\ UNCHANGED <<storeVars, now, scan_id, previous_session, counterVars,
                   chosen, bulkVars, calls, nops>>
    /\ UNCHANGED cmpVars

\* Mutant: declining the resume leaves the old row in place.
ResumeNo_KeepsRow ==
    /\ pc = "resume_prompt"
    /\ entry' = "restarted"
    /\ pc' = "severity_menu"
    /\ UNCHANGED <<storeVars, now, scan_id,
                   session_start_time, previous_session, counterVars, chosen,
                   bulkVars, calls, nops>>
    /\ UNCHANGED cmpVars

\* "Resume this session?" answered no
ResumeNo ==
    /\ pc = "resume_prompt"
    /\ sessions' = delete_session(sessions, scan_id)
    /\ entry' = "restarted"
    /\ pc' = "severity_menu"
    /\ UNCHANGED <<review_state, last_reviewed_at, now, scan_id,
                   session_start_time, previous_session, counterVars, chosen,
                   bulkVars, calls, nops>>
    /\ UNCHANGED cmpVars

\* "Resume this session?" interrupted -> return
ResumeInterrupt ==
    /\ pc = "resume_prompt"
    /\ pc' = "finally"
    /\ UNCHANGED <<storeVars, now, scan_id, session_start_time, previous_session, entry,
                   counterVars, chosen, bulkVars, calls, nops>>
    /\ UNCHANGED cmpVars

\* severity menu: b/back or KeyboardInterrupt -> break to the scan loop head
SeverityBack ==
    /\ pc = "severity_menu"
    /\ pc' = "loop_save"
    /\ UNCHANGED <<storeVars, now, scan_id, session_start_time, previous_session, entry,
                   counterVars, chosen, bulkVars, calls, nops>>
    /\ UNCHANGED cmpVars

\* severity menu: q -> return
SeverityQuit ==
    /\ pc = "severity_menu"
    /\ pc' = "finally"
    /\ UNCHANGED <<storeVars, now, scan_id, session_start_time, previous_session, entry,
                   counterVars, chosen, bulkVars, calls, nops>>
    /\ UNCHANGED cmpVars

\* severity menu: a selection -> browse_file_list(...)
SeveritySelect ==
    /\ pc = "severity_menu"
    /\ pc' = "file_list"
    /\ UNCHANGED <<storeVars, now, scan_id, session_start_time, previous_session, entry,
                   counterVars, chosen, bulkVars, calls, nops>>
    /\ UNCHANGED cmpVars

\* An exception no handler of the review loop catches (a store query failing, a
\* KeyboardInterrupt outside a guarded prompt) unwinds to main's finally block.
Uncaught ==
    /\ pc \in {"severity_menu", "file_list"}
    /\ pc' = "finally"
    /\ UNCHANGED <<storeVars, now, scan_id, session_start_time, previous_session, entry,
                   counterVars, chosen, bulkVars, calls, nops>>
    /\ UNCHANGED cmpVars

\* browse_file_list rebuilds candidates at the head of every iteration of its
\* loop and redraws the screen; marked is set again by the next bulk mark
BulkReset ==
    /\ candidates' = <<>>
    /\ idx' = 0
    /\ marked' = 0
    /\ summary' = <<>>
    /\ confirmed' = "unasked"

\* finding list: b/back, or KeyboardInterrupt at the prompt -> back to the
\* severity menu
ListBack ==
    /\ pc = "file_list"
    /\ pc' = "severity_menu"
    /\ UNCHANGED <<storeVars, now, scan_id, session_start_time, previous_session, entry,
                   counterVars, chosen, calls, nops>>
    /\ BulkReset
    /\ UNCHANGED cmpVars

\* finding list: action_type == "file_selected" -> process_single_finding up to
\* its call of handle_finding_view; a finding without hosts is skipped at once
FileSelected ==
    /\ pc = "file_list"
    /\ nops < MaxOps
    /\ \E f \in unreviewed(review_state, scan_id) :
         IF has_hosts(f)
         THEN /\ chosen' = f
              /\ pc' = "finding_view"
              /\ UNCHANGED skipped_total
         ELSE /\ skipped_total' = Append(skipped_total, f)
              /\ UNCHANGED <<chosen, pc>>
    /\ nops' = nops + 1
    /\ UNCHANGED <<storeVars, now, scan_id, session_start_time, previous_session, entry,
                   reviewed_total, completed_total, calls>>
    /\ BulkReset
    /\ UNCHANGED cmpVars

\* Mutant: going back from the view writes the state "reviewed".
ViewBack_PersistsReviewed ==
    /\ pc = "finding_view"
    /\ review_state' = [review_state EXCEPT ![chosen] = "reviewed"]
    /\ reviewed_total' = Append(reviewed_total, chosen)
    /\ chosen' = NoFinding
    /\ pc' = "file_list"
    /\ UNCHANGED <<sessions, last_reviewed_at, now, scan_id, session_start_time,
                   previous_session, entry, completed_total, skipped_total,
                   bulkVars, calls, nops>>
    /\ UNCHANGED cmpVars

\* handle_finding_view returns "back" (b, enter/skip, or KeyboardInterrupt at the
\* prompt); process_single_finding appends to reviewed_total
ViewBack ==
    /\ pc = "finding_view"
    /\ reviewed_total' = Append(reviewed_total, chosen)
    /\ chosen' = NoFinding
    /\ pc' = "file_list"
    /\ UNCHANGED <<storeVars, now, scan_id, session_start_time, previous_session, entry,
                   completed_total, skipped_total, bulkVars, calls, nops>>
    /\ UNCHANGED cmpVars

\* handle_finding_view "m": mark_review_complete(finding, plugin); on True the
\* view returns "mark_complete" and process_single_finding appends to
\* completed_total, on False the view asks again
ViewMark ==
    /\ pc = "finding_view"
    /\ \E store \in StoreOutcomes :
         LET r == mark_review_complete(review_state, chosen, store)
             after == IF r.result THEN Append(completed_total, chosen)
                      ELSE completed_total
         IN /\ review_state' = r.rs
            /\ completed_total' = after
            /\ calls' = Remember(CallRecord("mark", chosen, store, review_state[chosen],
                                            r, Len(completed_total), Len(after)))
            /\ pc' = IF r.result THEN "file_list" ELSE "finding_view"
            /\ chosen' = IF r.result THEN NoFinding ELSE chosen
    /\ UNCHANGED <<sessions, last_reviewed_at, now, scan_id, session_start_time,
                   previous_session, entry, reviewed_total, skipped_total, bulkVars, nops>>
    /\ UNCHANGED cmpVars

\* handle_finding_list_actions(ans, candidates, ..., reviewed, None, get_counts_for):
\* the undo of a finding of the scan; the handler is given no counter list
ListUndo ==
    /\ pc = "file_list"
    /\ nops < MaxOps
    /\ \E f \in {g \in Findings : scan_of(g) = scan_id}, store \in StoreOutcomes :
         LET r == undo_review_complete(review_state, f, store)
         IN /\ review_state' = r.rs
            /\ calls' = Remember(CallRecord("undo", f, store, review_state[f], r,
                                            Len(completed_total), Len(completed_total)))
    /\ nops' = nops + 1
    /\ UNCHANGED <<sessions, last_reviewed_at, now, pc, scan_id, session_start_time,
                   previous_session, entry, counterVars, chosen>>
    /\ BulkReset
    /\ UNCHANGED cmpVars

\* finding list: action_type == "mark_all" -> the confirmation prompt
MarkAll ==
    /\ pc = "file_list"
    /\ candidates' = SortedSeq(unreviewed(review_state, scan_id))
    /\ nops + Len(candidates') <= MaxOps
    /\ idx' = 0
    /\ marked' = 0
    /\ summary' = <<>>
    /\ confirmed' = "unasked"
    /\ pc' = "bulk_confirm"
    /\ UNCHANGED <<storeVars, now, scan_id, session_start_time, previous_session, entry,
                   counterVars, chosen, calls, nops>>
    /\ UNCHANGED cmpVars

\* Confirm.ask raised KeyboardInterrupt -> continue
BulkConfirmInterrupt ==
    /\ pc = "bulk_confirm"
    /\ confirmed' = "interrupted"
    /\ pc' = "file_list"
    /\ UNCHANGED <<storeVars, now, scan_id, session_start_time, previous_session, entry,
                   counterVars, chosen, candidates, idx, marked, summary, calls, nops>>
    /\ UNCHANGED cmpVars

\* Mutant: a negative answer runs the batch all the same.
BulkConfirmNo_Proceeds ==
    /\ pc = "bulk_confirm"
    /\ confirmed' = "no"
    /\ marked' = 0
    /\ idx' = 1
    /\ summary' = <<>>
    /\ pc' = "bulk_run"
    /\ UNCHANGED <<storeVars, now, scan_id, session_start_time, previous_session, entry,
                   counterVars, chosen, candidates, calls, nops>>
    /\ UNCHANGED cmpVars

\* Confirm.ask returned False -> continue
BulkConfirmNo ==
    /\ pc = "bulk_confirm"
    /\ confirmed' = "no"
    /\ pc' = "file_list"
    /\ UNCHANGED <<storeVars, now, scan_id, session_start_time, previous_session, entry,
                   counterVars, chosen, candidates, idx, marked, summary, calls, nops>>
    /\ UNCHANGED cmpVars

\* Confirm.ask returned True -> marked = 0, enter the loop
BulkConfirmYes ==
    /\ pc = "bulk_confirm"
    /\ confirmed' = "yes"
    /\ marked' = 0
    /\ idx' = 1
    /\ summary' = <<>>
    /\ pc' = "bulk_run"
    /\ UNCHANGED <<storeVars, now, scan_id, session_start_time, previous_session, entry,
                   counterVars, chosen, candidates, calls, nops>>
    /\ UNCHANGED cmpVars

\* Mutant: the loop counts every attempt as marked.
BulkItem_CountsAttempts ==
    /\ pc = "bulk_run"
    /\ idx <= Len(candidates)
    /\ \E store \in StoreOutcomes :
         LET f == candidates[idx]
             r == mark_review_complete(review_state, f, store)
             after == Append(completed_total, f)
         IN /\ review_state' = r.rs
            /\ marked' = marked + 1
            /\ completed_total' = after
            /\ calls' = Remember(CallRecord("mark", f, store, review_state[f], r,
                                            Len(completed_total), Len(after)))
    /\ idx' = idx + 1
    /\ nops' = nops + 1
    /\ UNCHANGED <<sessions, last_reviewed_at, now, pc, scan_id, session_start_time,
                   previous_session, entry, reviewed_total, skipped_total, chosen,
                   candidates, summary, confirmed>>
    /\ UNCHANGED cmpVars

\* one iteration of "for finding, plugin in candidates"
BulkItem ==
    /\ pc = "bulk_run"
    /\ idx <= Len(candidates)
    /\ \E store \in StoreOutcomes :
         LET f == candidates[idx]
             r == mark_review_complete(review_state, f, store)
             after == IF r.result THEN Append(completed_total, f) ELSE completed_total
         IN /\ review_state' = r.rs
            /\ marked' = IF r.result THEN marked + 1 ELSE marked
            /\ completed_total' = after
            /\ calls' = Remember(CallRecord("mark", f, store, review_state[f], r,
                                            Len(completed_total), Len(after)))
    /\ idx' = idx + 1
    /\ nops' = nops + 1
    /\ UNCHANGED <<sessions, last_reviewed_at, now, pc, scan_id, session_start_time,
                   previous_session, entry, reviewed_total, skipped_total, chosen,
                   candidates, summary, confirmed>>
    /\ UNCHANGED cmpVars

\* KeyboardInterrupt inside the loop: not an Exception, so mark_review_complete
\* does not catch it, and browse_file_list has no handler around the loop
BulkInterrupt ==
    /\ pc = "bulk_run"
    /\ idx <= Len(candidates)
    /\ pc' = "finally"
    /\ UNCHANGED <<storeVars, now, scan_id, session_start_time, previous_session, entry,
                   counterVars, chosen, bulkVars, calls, nops>>
    /\ UNCHANGED cmpVars

\* ok(f"Summary: {marked} marked, {len(candidates)-marked} skipped.")
BulkSummary ==
    /\ pc = "bulk_run"
    /\ idx > Len(candidates)
    /\ summary' = <<marked, Len(candidates) - marked>>
    /\ pc' = "file_list"
    /\ UNCHANGED <<storeVars, now, scan_id, session_start_time, previous_session, entry,
                   counterVars, chosen, candidates, idx, marked, confirmed, calls, nops>>
    /\ UNCHANGED cmpVars

\* The statistics display may raise: it queries the store inside
\* db_transaction() when completed_total is not empty, and prints.
StatsOutcomes == {"shown", "raised"}

\* Mutant: the loop head goes on to the delete without saving.
LoopSave_NoSave ==
    /\ pc = "loop_save"
    /\ scan_id # 0
    /\ pc' = IF work_done THEN "loop_stats" ELSE "loop_delete"
    /\ UNCHANGED <<storeVars, now, scan_id, session_start_time, previous_session, entry,
                   counterVars, chosen, bulkVars, calls, nops>>
    /\ UNCHANGED cmpVars

\* loop head, "if scan_id != 0": save_session(...)
LoopSave ==
    /\ pc = "loop_save"
    /\ scan_id # 0
    /\ sessions' = save_session(sessions, scan_id, session_start_time,
                                Len(reviewed_total), Len(completed_total),
                                Len(skipped_total))
    /\ last_reviewed_at' = [last_reviewed_at EXCEPT ![scan_id] = now]
    /\ pc' = IF work_done THEN "loop_stats" ELSE "loop_delete"
    /\ UNCHANGED <<review_state, now, scan_id, session_start_time, previous_session, entry,
                   counterVars, chosen, bulkVars, calls, nops>>
    /\ UNCHANGED cmpVars

\* loop head: show_session_statistics(...); an exception it raises leaves the
\* while loop and reaches the finally block with scan_id still set
LoopStats ==
    /\ pc = "loop_stats"
    /\ \E o \in StatsOutcomes :
         pc' = IF o = "shown" THEN "loop_delete" ELSE "finally"
    /\ UNCHANGED <<storeVars, now, scan_id, session_start_time, previous_session, entry,
                   counterVars, chosen, bulkVars, calls, nops>>
    /\ UNCHANGED cmpVars

\* loop head: delete_session(scan_id), then the reset of the tracking variables
LoopDelete ==
    /\ pc = "loop_delete"
    /\ sessions' = delete_session(sessions, scan_id)
    /\ scan_id' = 0
    /\ reviewed_total' = <<>>
    /\ completed_total' = <<>>
    /\ skipped_total' = <<>>
    /\ entry' = "none"
    /\ pc' = "scan_menu"
    /\ UNCHANGED <<review_state, last_reviewed_at, now, session_start_time,
                   previous_session, chosen, bulkVars, calls, nops>>
    /\ UNCHANGED cmpVars

\* finally: "if scan_id != 0" is false
FinallySkip ==
    /\ pc = "finally"
    /\ scan_id = 0
    /\ pc' = "exited"
    /\ UNCHANGED <<storeVars, now, scan_id, session_start_time, previous_session, entry,
                   counterVars, chosen, bulkVars, calls, nops>>
    /\ UNCHANGED cmpVars

\* finally: save_session(...)
FinallySave ==
    /\ pc = "finally"
    /\ scan_id # 0
    /\ sessions' = save_session(sessions, scan_id, session_start_time,
                                Len(reviewed_total), Len(completed_total),
                                Len(skipped_total))
    /\ last_reviewed_at' = [last_reviewed_at EXCEPT ![scan_id] = now]
    /\ pc' = IF work_done THEN "fin_stats" ELSE "fin_delete"
    /\ UNCHANGED <<review_state, now, scan_id, session_start_time, previous_session, entry,
                   counterVars, chosen, bulkVars, calls, nops>>
    /\ UNCHANGED cmpVars

\* finally: show_session_statistics(...); an exception it raises leaves main
FinallyStats ==
    /\ pc = "fin_stats"
    /\ \E o \in StatsOutcomes :
         pc' = IF o = "shown" THEN "fin_delete" ELSE "exited"
    /\ UNCHANGED <<storeVars, now, scan_id, session_start_time, previous_session, entry,
                   counterVars, chosen, bulkVars, calls, nops>>
    /\ UNCHANGED cmpVars

\* finally: delete_session(scan_id)
FinallyDelete ==
    /\ pc = "fin_delete"
    /\ sessions' = delete_session(sessions, scan_id)
    /\ pc' = "exited"
    /\ UNCHANGED <<review_state, last_reviewed_at, now, scan_id, session_start_time,
                   previous_session, entry, counterVars, chosen, bulkVars, calls, nops>>
    /\ UNCHANGED cmpVars

Next ==
    \/ Tick
    \/ ChooseScanQuit
    \/ SelectScan
    \/ ResumeYes
    \/ ResumeNo
    \/ ResumeInterrupt
    \/ SeverityBack
    \/ SeverityQuit
    \/ SeveritySelect
    \/ Uncaught
    \/ ListBack
    \/ FileSelected
    \/ ViewBack
    \/ ViewMark
    \/ ListUndo
    \/ MarkAll
    \/ BulkConfirmInterrupt
    \/ BulkConfirmNo
    \/ BulkConfirmYes
    \/ BulkItem
    \/ BulkInterrupt
    \/ BulkSummary
    \/ LoopSave
    \/ LoopStats
    \/ LoopDelete
    \/ FinallySkip
    \/ FinallySave
    \/ FinallyStats
    \/ FinallyDelete

Spec == Init /\ [][Next]_vars

\* ------------------------------------------------------------ cross-scan
\* plugin ids, scan ids and host ids of the cross-scan tables
Plugins == {100, 101, 102}
MissingScan == 99999
ScanArgs == Scans \cup {MissingScan}
HostIds == {1, 2, 3}
\* Plugin.severity_int, 0 (Info) .. 4 (Critical); min_severity has the same range
MaxSeverity == 4
Severities == 0..MaxSeverity
None == [none |-> TRUE]

\* hosts.ip_address of a host row; a host is one address (Host.get_or_create)
ip_address(h) == <<"192.168.1", h>>
Addresses == {ip_address(h) : h \in HostIds}

\* query_one(conn, "SELECT scan_id, scan_name, created_at FROM scans WHERE
\* scan_id = ?"): the row, or None
scan_row(d, sid) ==
    IF sid \in d.scans
    THEN [scan_id |-> sid, created_at |-> d.created_at[sid]]
    ELSE None

\* v_scan_plugin_summary: one row per finding of a scan, with the severity of
\* its plugin and the number of hosts the finding affects in that scan
v_scan_plugin_summary(d) ==
    {[scan_id |-> fd[1], plugin_id |-> fd[2], severity_int |-> d.severity_int[fd[2]],
      affected_hosts |-> Cardinality({h \in d.hosts : <<fd[1], fd[2], h>> \in d.links})] :
        fd \in d.findings}

RECURSIVE OrderBySeverityDesc(_)
\* ORDER BY severity_int DESC, plugin_name (plugins are named in id order)
OrderBySeverityDesc(rows) ==
    IF rows = {} THEN <<>>
    ELSE LET r == CHOOSE x \in rows : \A y \in rows :
                      \/ x.severity_int > y.severity_int
                      \/ x.severity_int = y.severity_int /\ x.plugin_id <= y.plugin_id
         IN <<[plugin_id |-> r.plugin_id, severity_int |-> r.severity_int,
               affected_hosts |-> r.affected_hosts]>>
            \o OrderBySeverityDesc(rows \ {r})

\* Mutant: the plugin query without its severity condition.
scan_plugins_NoFilter(d, sid, min_severity) ==
    OrderBySeverityDesc({r \in v_scan_plugin_summary(d) : r.scan_id = sid})

\* query_all(conn, "... FROM v_scan_plugin_summary WHERE scan_id = ? AND
\* severity_int >= ? ORDER BY severity_int DESC, plugin_name")
scan_plugins(d, sid, min_severity) ==
    OrderBySeverityDesc({r \in v_scan_plugin_summary(d) :
                            r.scan_id = sid /\ r.severity_int >= min_severity})

\* {row["plugin_id"] for row in rows}
plugin_id_set(rows) == {rows[i].plugin_id : i \in 1..Len(rows)}

\* Mutant: new taken from the base scan, resolved from the candidate.
classify_findings_Swapped(ids1, ids2) ==
    [new |-> ids1 \ ids2, resolved |-> ids2 \ ids1, persistent |-> ids1 \cap ids2]

\* Mutant: every plugin of the candidate counts as persistent.
classify_findings_PersistentIsCandidate(ids1, ids2) ==
    [new |-> ids2 \ ids1, resolved |-> ids1 \ ids2, persistent |-> ids2]

\* Mutant: every plugin of the candidate counts as new.
classify_findings_NewIsCandidate(ids1, ids2) ==
    [new |-> ids2, resolved |-> ids1 \ ids2, persistent |-> ids1 \cap ids2]

\* new_plugin_ids, resolved_plugin_ids, persistent_plugin_ids
classify_findings(ids1, ids2) ==
    [new |-> ids2 \ ids1, resolved |-> ids1 \ ids2, persistent |-> ids1 \cap ids2]

\* [dict(row) for row in rows if row[key] in ids]
rows_in(rows, ids) == SelectSeq(rows, LAMBDA r : r.plugin_id \in ids)

\* dict.get(sev, 0)
dict_get(acc, sev) == IF sev \in DOMAIN acc THEN acc[sev] ELSE 0

RECURSIVE count_by_severity(_, _)
\* the loop over the rows of a bucket: by_severity[sev] = by_severity.get(sev, 0) + 1
count_by_severity(rows, acc) ==
    IF rows = <<>> THEN acc
    ELSE LET sev == Head(rows).severity_int
         IN count_by_severity(Tail(rows),
                [sv \in DOMAIN acc \cup {sev} |->
                    IF sv = sev THEN dict_get(acc, sev) + 1 ELSE acc[sv]])

RECURSIVE count_by_severity_Overwrites(_, _)
count_by_severity_Overwrites(rows, acc) ==
    IF rows = <<>> THEN acc
    ELSE LET sev == Head(rows).severity_int
         IN count_by_severity_Overwrites(Tail(rows),
                [sv \in DOMAIN acc \cup {sev} |-> IF sv = sev THEN 1 ELSE acc[sv]])

\* Mutant: the count of a severity is set to 1 instead of raised by 1.
by_severity_Overwrites(rows) == count_by_severity_Overwrites(rows, <<>>)

\* new_by_severity / resolved_by_severity / persistent_by_severity of a bucket
by_severity(rows) == count_by_severity(rows, <<>>)

\* Mutant: the persistent rows are taken from the base scan's rows.
persistent_rows_FromBase(scan1_plugins, scan2_plugins, ids) ==
    rows_in(scan1_plugins, ids)

\* "for row in scan2_plugins: if row["plugin_id"] in persistent_plugin_ids"
persistent_rows(scan1_plugins, scan2_plugins, ids) ==
    rows_in(scan2_plugins, ids)

\* SELECT DISTINCT h.host_id, h.ip_address ... FROM hosts h JOIN
\* finding_affected_hosts fah JOIN findings f WHERE f.scan_id = ?
\* ORDER BY h.ip_address
scan_hosts(d, sid) ==
    SortedSeq({h \in d.hosts : \E l \in d.links :
                  l[1] = sid /\ l[3] = h /\ <<l[1], l[2]>> \in d.findings})

\* {row["host_id"] for row in rows}
host_id_set(rows) == {rows[i] : i \in 1..Len(rows)}

\* Mutant: new hosts taken from the base scan, removed from the candidate.
classify_hosts_Swapped(ids1, ids2) ==
    [new |-> ids1 \ ids2, removed |-> ids2 \ ids1, persistent |-> ids1 \cap ids2]

\* new_host_ids, removed_host_ids, persistent_host_ids
classify_hosts(ids1, ids2) ==
    [new |-> ids2 \ ids1, removed |-> ids1 \ ids2, persistent |-> ids1 \cap ids2]

\* [dict(row) for row in rows if row["host_id"] in ids]
host_rows_in(rows, ids) ==
    LET kept == SelectSeq(rows, LAMBDA h : h \in ids)
    IN [i \in 1..Len(kept) |-> [host_id |-> kept[i], ip_address |-> ip_address(kept[i])]]

\* Mutant: only the base scan is looked for.
scans_found_BaseOnly(scan1, scan2) == scan1 # None

\* "if not scan1 or not scan2: return None", negated
scans_found(scan1, scan2) == scan1 # None /\ scan2 # None

\* compare_scans(scan_id_1, scan_id_2, min_severity, conn): result is None or
\* the ScanComparisonResult; raised tells whether an exception leaves the call
\* (reading a field of a scan row that is None)
compare_scans(d, scan_id_1, scan_id_2, min_severity) ==
    LET scan1 == scan_row(d, scan_id_1)
        scan2 == scan_row(d, scan_id_2)
        scan1_plugins == scan_plugins(d, scan_id_1, min_severity)
        scan2_plugins == scan_plugins(d, scan_id_2, min_severity)
        fc == classify_findings(plugin_id_set(scan1_plugins),
                                plugin_id_set(scan2_plugins))
        new_findings == rows_in(scan2_plugins, fc.new)
        resolved_findings == rows_in(scan1_plugins, fc.resolved)
        persistent_findings == persistent_rows(scan1_plugins, scan2_plugins,
                                               fc.persistent)
        scan1_hosts == scan_hosts(d, scan_id_1)
        scan2_hosts == scan_hosts(d, scan_id_2)
        hc == classify_hosts(host_id_set(scan1_hosts), host_id_set(scan2_hosts))
    IN IF ~scans_found(scan1, scan2)
       THEN [raised |-> FALSE, result |-> None]
       ELSE IF scan1 = None \/ scan2 = None
       THEN [raised |-> TRUE, result |-> None]
       ELSE [raised |-> FALSE,
             result |->
               [scan1_id |-> scan_id_1, scan1_date |-> scan1.created_at,
                scan2_id |-> scan_id_2, scan2_date |-> scan2.created_at,
                new_findings |-> new_findings,
                resolved_findings |-> resolved_findings,
                persistent_findings |-> persistent_findings,
                new_hosts |-> host_rows_in(scan2_hosts, hc.new),
                removed_hosts |-> host_rows_in(scan1_hosts, hc.removed),
                persistent_hosts |-> host_rows_in(scan2_hosts, hc.persistent),
                new_by_severity |-> by_severity(new_findings),
                resolved_by_severity |-> by_severity(resolved_findings),
                persistent_by_severity |-> by_severity(persistent_findings)]]

\* ScanComparisonResult.total_new / total_resolved / total_persistent
total_new(r) == Len(r.new_findings)
total_resolved(r) == Len(r.resolved_findings)
total_persistent(r) == Len(r.persistent_findings)

\* query_one(conn, "SELECT host_id, ip_address, ... FROM hosts WHERE
\* ip_address = ? ORDER BY last_seen DESC LIMIT 1"): the row, or None
host_row(d, address) ==
    IF \E h \in d.hosts : ip_address(h) = address
    THEN LET h == CHOOSE x \in d.hosts : ip_address(x) = address
         IN [host_id |-> h, ip_address |-> ip_address(h)]
    ELSE None

\* the findings of scan sid linked to host h
host_findings(d, sid, h) ==
    {fd \in d.findings : fd[1] = sid /\ <<fd[1], fd[2], h>> \in d.links}

\* max(S) of a set of numbers that is not empty
SetMax(S) == CHOOSE x \in S : \A y \in S : y <= x

\* v_host_scan_findings: one row per host and scan in which the host is linked
\* to a finding, with the scan's date and the host's finding figures
v_host_scan_findings(d) ==
    {[ip_address |-> ip_address(h), scan_id |-> sid,
      scan_date |-> d.created_at[sid],
      finding_count |-> Cardinality(host_findings(d, sid, h)),
      max_severity |-> SetMax({d.severity_int[fd[2]] : fd \in host_findings(d, sid, h)})] :
        <<h, sid>> \in {x \in d.hosts \X d.scans : host_findings(d, x[2], x[1]) # {}}}

\* the sequences that hold each row of a set once
Orderings(rows) ==
    {sq \in [1..Cardinality(rows) -> rows] :
        \A i, j \in 1..Cardinality(rows) : i # j => sq[i] # sq[j]}

\* Mutant: the history rows come in scan id order, latest first.
ordered_by_scan_date_ById(rows) ==
    {sq \in Orderings(rows) :
        \A i, j \in 1..Len(sq) : i < j => sq[i].scan_id >= sq[j].scan_id}

\* ORDER BY scan_date ASC: every order the store may return the rows in; rows
\* of equal date come in any order
ordered_by_scan_date(rows) ==
    {sq \in Orderings(rows) :
        \A i, j \in 1..Len(sq) : i < j => sq[i].scan_date <= sq[j].scan_date}

\* query_all(conn, "... FROM v_host_scan_findings WHERE ip_address = ?
\* ORDER BY scan_date ASC")
host_scan_history(d, address) ==
    ordered_by_scan_date({r \in v_host_scan_findings(d) : r.ip_address = address})

\* "SELECT DISTINCT f.plugin_id FROM findings f JOIN finding_affected_hosts
\* JOIN hosts h WHERE f.scan_id = ? AND h.ip_address = ? ORDER BY f.plugin_id"
host_plugin_ids(d, sid, address) ==
    SortedSeq({fd[2] : fd \in {x \in d.findings :
                  x[1] = sid /\ \E h \in d.hosts :
                      ip_address(h) = address /\ <<x[1], x[2], h>> \in d.links}})

\* get_host_vulnerability_history(ip_address, conn), scan_history being the
\* rows as the store returned them: None, or the HostVulnerabilityHistory
get_host_vulnerability_history(d, address, scan_history) ==
    LET host == host_row(d, address)
    IN IF host = None
       THEN None
       ELSE [host_id |-> host.host_id, ip_address |-> host.ip_address,
             scans |-> [i \in 1..Len(scan_history) |->
                          [scan_id |-> scan_history[i].scan_id,
                           scan_date |-> scan_history[i].scan_date,
                           finding_count |-> scan_history[i].finding_count,
                           max_severity |-> scan_history[i].max_severity,
                           plugin_ids |-> host_plugin_ids(d, scan_history[i].scan_id,
                                                          address)]]]

\* the review loop's variables, which the cross-scan functions leave alone
CrossScanIdle ==
    /\ review_state = [f \in Findings |-> "pending"]
    /\ sessions = [s \in Scans |-> NoSession]
    /\ last_reviewed_at = [s \in Scans |-> 0]
    /\ now = 1
    /\ pc = "cross_scan"
    /\ scan_id = 0
    /\ session_start_time = 1
    /\ previous_session = NoSession
    /\ reviewed_total = <<>>
    /\ completed_total = <<>>
    /\ skipped_total = <<>>
    /\ chosen = NoFinding
    /\ candidates = <<>>
    /\ idx = 0
    /\ marked = 0
    /\ summary = <<>>
    /\ confirmed = "unasked"
    /\ entry = "none"
    /\ calls = <<>>
    /\ nops = 0

\* Stores for the finding comparison: any findings of the two scans, plugins of
\* any severity, every finding affecting host 1, scan 1 imported before scan 2.
InitCmp ==
    /\ CrossScanIdle
    /\ \E fs \in SUBSET (Scans \X Plugins), sv \in [Plugins -> Severities] :
         db = [scans |-> Scans,
               created_at |-> [s \in Scans |-> s],
               severity_int |-> sv,
               findings |-> fs,
               links |-> {<<fd[1], fd[2], 1>> : fd \in fs},
               hosts |-> IF fs = {} THEN {} ELSE {1}]
    /\ out = NoCall
    /\ workflow_mapper = NoMapper

\* plugins and import times of the stores for the host comparison
HostPlugins == {100, 101}
ScanDates == {1, 2}

\* Stores for the host comparison and the host history: any links of hosts to
\* findings of two plugins, any hosts known beyond the linked ones, scans
\* imported at any times.
InitHosts ==
    /\ CrossScanIdle
    /\ \E ls \in SUBSET (Scans \X HostPlugins \X HostIds), hs \in SUBSET HostIds,
          ca \in [Scans -> ScanDates] :
         /\ {l[3] : l \in ls} \subseteq hs
         /\ db = [scans |-> Scans,
                  created_at |-> ca,
                  severity_int |-> [p \in Plugins |-> 104 - p],
                  findings |-> {<<l[1], l[2]>> : l \in ls},
                  links |-> ls,
                  hosts |-> hs]
    /\ out = NoCall
    /\ workflow_mapper = NoMapper

\* a call of compare_scans on the store as drawn
Compare ==
    /\ pc = "cross_scan"
    /\ out = NoCall
    /\ \E a \in ScanArgs, b \in ScanArgs, m \in Severities :
         LET r == compare_scans(db, a, b, m)
         IN out' = [op |-> "compare", scan_id_1 |-> a, scan_id_2 |-> b,
                    min_severity |-> m, raised |-> r.raised, result |-> r.result]
    /\ UNCHANGED <<db, workflow_mapper, review_state, mainVars, calls, nops>>

\* a call of get_host_vulnerability_history on the store as drawn
History ==
    /\ pc = "cross_scan"
    /\ out = NoCall
    /\ \E address \in Addresses :
         \E scan_history \in host_scan_history(db, address) :
            out' = [op |-> "history", ip_address |-> address, raised |-> FALSE,
                    result |-> get_host_vulnerability_history(db, address, scan_history)]
    /\ UNCHANGED <<db, workflow_mapper, review_state, mainVars, calls, nops>>

NextCmp ==
    \/ Compare
    \/ History

SpecCmp == InitCmp /\ [][NextCmp]_vars

SpecHosts == InitHosts /\ [][NextCmp]_vars

\* ------------------------------------------------------- workflow mapper
\* The mapper of cerno_pkg/workflow_mapper.py, as the design describes it and
\* as main() and tests/test_workflow_mapper.py use it.
MaxDefaultEntries == 3
MaxCustomEntries == 2

\* plugin ids are written with one digit each; a plugin_id field is a string,
\* i.e. a sequence of characters
Digits == {"1", "2", "3", "4"}
Comma == ","
PluginIds == {<<c>> : c \in Digits}
\* an entry without its plugin_id
MissingField == <<>>
\* the plugin_id fields of the bundled document's entries:
\* 'plugin_id: "12345"', 'plugin_id: "67890,11111,22222"'
DefaultFields ==
    {<<"1">>, <<"2">>, <<"3">>, <<"1", ",", "2", ",", "3">>, MissingField}
\* the plugin_id fields of the custom document's entries
CustomFields == {<<"2">>, <<"4">>, <<"3", ",", "4">>, MissingField}

\* a configuration document: unparseable, or a 'workflows' list of at most n
\* entries with the given plugin_id fields
Unparseable == [parseable |-> FALSE, workflows |-> <<>>]
Documents(fields, n) ==
    {[parseable |-> TRUE, workflows |-> w] :
        w \in UNION {[1..k -> [plugin_id : fields]] : k \in 0..n}}
    \cup {Unparseable}

RECURSIVE split(_)
\* plugin_id.split(",")
split(str) ==
    IF \A i \in 1..Len(str) : str[i] # Comma THEN <<str>>
    ELSE LET c == CHOOSE i \in 1..Len(str) :
                      str[i] = Comma /\ \A j \in 1..(i - 1) : str[j] # Comma
         IN <<SubSeq(str, 1, c - 1)>> \o split(SubSeq(str, c + 1, Len(str)))

\* the Workflow object built from entry i of the document of load number l
Workflow(l, i, e) == [load |-> l, index |-> i, plugin_id |-> e.plugin_id]

\* a document that cannot be loaded: unparseable, or an entry lacks a field
malformed(doc) ==
    \/ ~doc.parseable
    \/ \E i \in 1..Len(doc.workflows) : doc.workflows[i].plugin_id = MissingField

\* the empty registered-key map
EmptyMap == [k \in {} |-> None]

\* Mutant: only the first id of the list is registered.
register_FirstIdOnly(m, wf) ==
    LET ids == {split(wf.plugin_id)[1]}
    IN [k \in DOMAIN m \cup ids |-> IF k \in ids THEN wf ELSE m[k]]

\* Mutant: an id that is registered already keeps its workflow.
register_KeepsExisting(m, wf) ==
    LET pieces == split(wf.plugin_id)
        ids == {pieces[i] : i \in 1..Len(pieces)} \ {<<>>}
    IN [k \in DOMAIN m \cup ids |-> IF k \in DOMAIN m THEN m[k] ELSE wf]

\* every id of the entry's list becomes a key pointing to the same Workflow
register(m, wf) ==
    LET pieces == split(wf.plugin_id)
        ids == {pieces[i] : i \in 1..Len(pieces)} \ {<<>>}
    IN [k \in DOMAIN m \cup ids |-> IF k \in ids THEN wf ELSE m[k]]

RECURSIVE register_all(_, _)
\* the entries of a document are registered in document order
register_all(m, wfs) ==
    IF wfs = <<>> THEN m
    ELSE register_all(register(m, Head(wfs)), Tail(wfs))

\* the distinct Workflow objects of a registered-key map
workflow_objects(m) == {m[k] : k \in DOMAIN m}

\* Mutant: the entries before the first malformed one are registered.
load_workflows_Partial(m, doc, l) ==
    IF ~doc.parseable THEN [workflows |-> m, count |-> 0, failed |-> TRUE]
    ELSE LET bad == {i \in 1..Len(doc.workflows) :
                        doc.workflows[i].plugin_id = MissingField}
             good == IF bad = {} THEN Len(doc.workflows)
                     ELSE (CHOOSE i \in bad : \A j \in bad : i <= j) - 1
             m2 == register_all(m, [i \in 1..good |->
                                       Workflow(l, i, doc.workflows[i])])
         IN [workflows |-> m2,
             count |-> IF bad = {} THEN Cardinality({w \in workflow_objects(m2) :
                                                        w.load = l})
                       ELSE 0,
             failed |-> bad # {}]

\* one load of a document into the map: a malformed document fails the whole
\* load and reports 0; otherwise the report is the number of distinct
\* workflows the document contributed
load_workflows(m, doc, l) ==
    IF malformed(doc) THEN [workflows |-> m, count |-> 0, failed |-> TRUE]
    ELSE LET m2 == register_all(m, [i \in 1..Len(doc.workflows) |->
                                       Workflow(l, i, doc.workflows[i])])
         IN [workflows |-> m2,
             count |-> Cardinality({w \in workflow_objects(m2) : w.load = l}),
             failed |-> FALSE]

\* get_workflow(plugin_id): the registered workflow, or None
get_workflow(m, id) == IF id \in DOMAIN m THEN m[id] ELSE None

\* has_workflow(plugin_id)
has_workflow(m, id) == id \in DOMAIN m

RECURSIVE in_load_order(_)
in_load_order(ws) ==
    IF ws = {} THEN <<>>
    ELSE LET w == CHOOSE x \in ws : \A y \in ws :
                      \/ x.load < y.load
                      \/ x.load = y.load /\ x.index <= y.index
         IN <<w>> \o in_load_order(ws \ {w})

\* get_all_workflows(): the deduplicated workflows in load order
get_all_workflows(m) == in_load_order(workflow_objects(m))

\* Mutant: the number of registered keys.
count_Keys(m) == Cardinality(DOMAIN m)

\* count(): the number of distinct Workflow objects
count(m) == Cardinality(workflow_objects(m))

\* the review loop's variables, which the loading of workflows leaves alone
WorkflowIdle ==
    /\ review_state = [f \in Findings |-> "pending"]
    /\ sessions = [s \in Scans |-> NoSession]
    /\ last_reviewed_at = [s \in Scans |-> 0]
    /\ now = 1
    /\ pc = "workflow"
    /\ scan_id = 0
    /\ session_start_time = 1
    /\ previous_session = NoSession
    /\ reviewed_total = <<>>
    /\ completed_total = <<>>
    /\ skipped_total = <<>>
    /\ chosen = NoFinding
    /\ candidates = <<>>
    /\ idx = 0
    /\ marked = 0
    /\ summary = <<>>
    /\ confirmed = "unasked"
    /\ entry = "none"
    /\ calls = <<>>
    /\ nops = 0

InitWf ==
    /\ WorkflowIdle
    /\ db = NoDb
    /\ out = NoCall
    /\ workflow_mapper = NoMapper

\* WorkflowMapper(): the mapper is built from its first document
Construct ==
    /\ pc = "workflow"
    /\ workflow_mapper = NoMapper
    /\ \E doc \in Documents(DefaultFields, MaxDefaultEntries) :
         LET r == load_workflows(EmptyMap, doc, 1)
         IN /\ workflow_mapper' = [workflows |-> r.workflows]
            /\ out' = [op |-> "construct", document |-> doc, defaults |-> doc,
                       before |-> EmptyMap, count |-> r.count, failed |-> r.failed]
    /\ UNCHANGED <<db, review_state, mainVars, calls, nops>>

\* workflow_mapper.load_additional_workflows(custom_workflows), once
LoadAdditional ==
    /\ pc = "workflow"
    /\ out.op = "construct"
    /\ \E doc \in Documents(CustomFields, MaxCustomEntries) :
         LET r == load_workflows(workflow_mapper.workflows, doc, 2)
         IN /\ workflow_mapper' = [workflows |-> r.workflows]
            /\ out' = [op |-> "load_additional", document |-> doc,
                       defaults |-> out.document,
                       before |-> workflow_mapper.workflows,
                       count |-> r.count, failed |-> r.failed]
    /\ UNCHANGED <<db, review_state, mainVars, calls, nops>>

NextWf ==
    \/ Construct
    \/ LoadAdditional

SpecWf == InitWf /\ [][NextWf]_vars

\* ============================================================ properties

\* A call in which the store write was attempted.
Attempted(c) ==
    \/ c.op = "mark" /\ c.pre # "completed"
    \/ c.op = "undo" /\ c.pre = "completed"

\* C1: for a finding that is not completed, two calls of mark_complete in a
\* row (the store accepting the write of the first): the first returns success
\* and sets review_state to completed, the second returns failure with
\* "already complete" and leaves review_state unchanged.
C1_MarkTwice ==
    (/\ Len(calls) = 2
     /\ calls[1].op = "mark" /\ calls[2].op = "mark"
     /\ calls[1].f = calls[2].f
     /\ calls[1].pre # "completed"
     /\ calls[1].store = "ok")
    => /\ calls[1].result
       /\ calls[1].post = "completed"
       /\ ~calls[2].result
       /\ calls[2].msg = "already"
       /\ calls[2].pre = "completed"
       /\ calls[2].post = "completed"
       /\ review_state[calls[2].f] = "completed"

C1_Witness ==
    /\ pc = "api"
    /\ Len(calls) = 2
    /\ calls[1].op = "mark" /\ calls[2].op = "mark"
    /\ calls[1].f = calls[2].f
    /\ calls[1].pre = "pending"
    /\ calls[1].result
    /\ ~calls[2].result

\* C2 (as claimed): a successful mark_complete of a pending finding followed at
\* once by a successful undo_complete of it restores review_state to pending and
\* brings the completed counter back to its value before the completion.
C2_Step ==
    (/\ pc = "file_list" /\ pc' = "file_list"
     /\ Len(calls) = 1
     /\ calls[1].op = "mark" /\ calls[1].pre = "pending" /\ calls[1].result
     /\ review_state[calls[1].f] = "completed"
     /\ review_state'[calls[1].f] # "completed")
    => /\ review_state'[calls[1].f] = "pending"
       /\ Len(completed_total') = calls[1].completed_before

C2_RoundTripRestoresCounters == [][C2_Step]_vars

\* C3: undo_complete on a finding that is not completed returns failure and
\* leaves review_state unchanged; on a completed finding (the store accepting
\* the write) it returns success and resets review_state to pending.
C3_Undo ==
    \A i \in 1..Len(calls) :
        calls[i].op = "undo" =>
            IF calls[i].pre # "completed"
            THEN ~calls[i].result /\ calls[i].post = calls[i].pre
            ELSE calls[i].store = "ok" =>
                     calls[i].result /\ calls[i].post = "pending"

C3_Witness ==
    /\ pc = "api"
    /\ Len(calls) = 2
    /\ calls[1].op = "undo" /\ calls[1].pre = "pending" /\ ~calls[1].result
    /\ calls[2].op = "undo" /\ calls[2].pre = "completed" /\ calls[2].result

\* C4: whatever sequence of mark, undo and bulk mark ran, every finding's
\* persisted review_state is pending or completed, never reviewed.
C4_OnlyPendingOrCompleted ==
    \A f \in Findings : review_state[f] \in {"pending", "completed"}

\* a finding marked in the view, undone, and marked again by a bulk mark
C4_Witness ==
    /\ pc = "bulk_run"
    /\ marked = 1
    /\ Len(completed_total) = 2
    /\ completed_total[1] = completed_total[2]
    /\ Len(calls) = 1 /\ calls[1].op = "mark"

\* C5: the bulk mark attempts every element in turn whatever the earlier
\* elements returned; marked counts exactly the elements this batch turned to
\* completed, the elements not yet reached are untouched, and the summary
\* gives marked and skipped with marked + skipped = batch size.
C5_BulkCounts ==
    (pc = "bulk_run" \/ summary # <<>>) =>
        /\ idx \in 1..(Len(candidates) + 1)
        /\ marked = Cardinality({j \in 1..(idx - 1) :
                                   review_state[candidates[j]] = "completed"})
        /\ \A j \in idx..Len(candidates) : review_state[candidates[j]] # "completed"
        /\ summary # <<>> =>
              /\ idx = Len(candidates) + 1
              /\ summary[1] = marked
              /\ summary[1] + summary[2] = Len(candidates)

\* a batch of two: the first element failed, the second was marked
C5_Witness ==
    /\ summary = <<1, 1>>
    /\ Len(candidates) = 2
    /\ review_state[candidates[1]] # "completed"
    /\ review_state[candidates[2]] = "completed"

\* C6: nothing is changed on the way to the confirmation prompt or by the
\* answer to it; an interrupted or negative answer returns to the finding list
\* and the batch starts only on a positive answer.
C6_Step ==
    /\ (pc = "bulk_confirm" \/ pc' = "bulk_confirm") =>
           UNCHANGED <<review_state, reviewed_total, completed_total,
                       skipped_total, sessions, last_reviewed_at>>
    /\ (pc = "bulk_confirm" /\ confirmed' \in {"no", "interrupted"}) =>
           pc' = "file_list"
    /\ (pc # "bulk_run" /\ pc' = "bulk_run") => confirmed' = "yes"

C6_ConfirmationFirst == [][C6_Step]_vars

C6_Witness ==
    /\ pc = "file_list"
    /\ confirmed = "interrupted"
    /\ Len(candidates) = 2
    /\ \A j \in 1..Len(candidates) : review_state[candidates[j]] = "pending"

\* C7 (as claimed): once a confirmed batch has started it is left only with
\* every element attempted and the summary produced.
C7_BatchRunsToCompletion ==
    (confirmed = "yes" /\ pc # "bulk_run") =>
        /\ idx = Len(candidates) + 1
        /\ summary # <<>>

\* C8 (as claimed): a store failure during mark_complete or undo_complete leaves
\* review_state as it was and reaches the caller as a raised failure, not as
\* the boolean result.
C8_StoreFailurePropagates ==
    \A i \in 1..Len(calls) :
        (Attempted(calls[i]) /\ calls[i].store = "fail") =>
            /\ calls[i].post = calls[i].pre
            /\ calls[i].raised

\* C9 (as claimed): when main has ended with a scan selected, the session of
\* that scan has been finalized: its row is removed.
C9_FinalizedOnEveryExit ==
    (pc = "exited" /\ scan_id # 0) => sessions[scan_id] = NoSession

\* C10: after a resume, the start time used for the elapsed time is the start
\* of the session that was found, and so is the start the final save writes.
C10_ResumeKeepsStart ==
    entry = "resumed" =>
        /\ session_start_time = fromisoformat(previous_session.session_start)
        /\ elapsed_seconds = now - fromisoformat(previous_session.session_start)
        /\ sessions[scan_id] # NoSession =>
               sessions[scan_id].session_start = previous_session.session_start

\* the final save has been written after a resume made at a later time
C10_Witness ==
    /\ entry = "resumed"
    /\ pc \in {"loop_delete", "fin_delete"}
    /\ sessions[scan_id] # previous_session
    /\ now > 1
    /\ elapsed_seconds = now

\* positions of main between the entry of a scan and its finalization
Reviewing ==
    {"severity_menu", "file_list", "finding_view", "bulk_confirm", "bulk_run"}

\* C11: when the resume of a found session is declined, the old row is deleted
\* in that very step, before any review activity, with the counters empty; no
\* row exists for the scan until its finalization, and the row finalized for
\* it carries neither the start of the old session nor its counters but the
\* counts of what was reviewed since.
C11_Step ==
    /\ (pc = "resume_prompt" /\ entry' = "restarted") =>
           /\ sessions[scan_id] = previous_session
           /\ sessions'[scan_id] = NoSession
           /\ reviewed_total' = <<>> /\ completed_total' = <<>> /\ skipped_total' = <<>>
           /\ UNCHANGED <<review_state, nops>>
    /\ (entry' = "restarted" /\ pc' \in Reviewing \cup {"loop_save"}) =>
           sessions'[scan_id] = NoSession
    /\ (entry' = "restarted" /\ sessions'[scan_id] # NoSession) =>
           /\ sessions'[scan_id].session_start # previous_session'.session_start
           /\ sessions'[scan_id].reviewed_count = Len(reviewed_total')
           /\ sessions'[scan_id].completed_count = Len(completed_total')
           /\ sessions'[scan_id].skipped_count = Len(skipped_total')

C11_RestartIsFresh == [][C11_Step]_vars

\* restarted, nothing reviewed, finalized: the saved row counts 0 reviewed where
\* the old session counted 1
C11_Witness ==
    /\ entry = "restarted"
    /\ pc \in {"loop_delete", "fin_delete"}
    /\ sessions[scan_id] # NoSession
    /\ sessions[scan_id].reviewed_count = 0
    /\ previous_session.reviewed_count = 1

\* C12 (as claimed): a scan entered without an existing session has an open
\* session row from its first review action on, while the review is in
\* progress.
C12_OpenWhileReviewing ==
    (entry = "fresh" /\ pc \in Reviewing /\ work_done) =>
        sessions[scan_id] # NoSession

BucketIds(rows) == {rows[i].plugin_id : i \in 1..Len(rows)}

\* the scan's findings whose plugin has severity at least m
FilteredFindings(s, m) ==
    {fd \in db.findings : fd[1] = s /\ db.severity_int[fd[2]] >= m}

\* the severity-filtered plugin-id set of a scan
FilteredIds(s, m) == {fd[2] : fd \in FilteredFindings(s, m)}

\* the latest call compared two scans that exist
ComparedExisting ==
    /\ out.op = "compare"
    /\ out.scan_id_1 \in db.scans
    /\ out.scan_id_2 \in db.scans

\* C14: for two existing scans, compare_scans returns a result whose new
\* findings are the severity-filtered plugin ids of the candidate that are not
\* of the base, whose resolved findings are those of the base that are not of
\* the candidate, and whose persistent findings are those of both.
C14_Classification ==
    ComparedExisting =>
        LET A == FilteredIds(out.scan_id_1, out.min_severity)
            B == FilteredIds(out.scan_id_2, out.min_severity)
        IN /\ ~out.raised
           /\ out.result # None
           /\ BucketIds(out.result.new_findings) = B \ A
           /\ BucketIds(out.result.resolved_findings) = A \ B
           /\ BucketIds(out.result.persistent_findings) = A \cap B

\* A = {100, 101}, B = {100, 101, 102}: new = {102}, resolved = {},
\* persistent = {100, 101}
C14_Witness ==
    /\ out.op = "compare"
    /\ out.scan_id_1 = 1 /\ out.scan_id_2 = 2 /\ out.min_severity = 0
    /\ db.findings = ({1} \X {100, 101}) \cup ({2} \X {100, 101, 102})
    /\ BucketIds(out.result.new_findings) = {102}
    /\ out.result.resolved_findings = <<>>
    /\ BucketIds(out.result.persistent_findings) = {100, 101}

\* C15: for existing scans A and B and every min_severity, the new plugin ids
\* of compare_scans(A, B) are the resolved ones of compare_scans(B, A), the
\* resolved ones of (A, B) are the new ones of (B, A), and the persistent
\* plugin ids of the two are equal.
C15_SwapSymmetry ==
    ComparedExisting =>
        LET ab == out.result
            ba == compare_scans(db, out.scan_id_2, out.scan_id_1,
                                out.min_severity).result
        IN /\ ab # None /\ ba # None
           /\ BucketIds(ab.new_findings) = BucketIds(ba.resolved_findings)
           /\ BucketIds(ab.resolved_findings) = BucketIds(ba.new_findings)
           /\ BucketIds(ab.persistent_findings) = BucketIds(ba.persistent_findings)

\* two different scans and a filter above 0: a new finding, a resolved one,
\* and a plugin of both scans that the filter keeps out
C15_Witness ==
    /\ out.op = "compare"
    /\ out.scan_id_1 = 2 /\ out.scan_id_2 = 1 /\ out.min_severity = 2
    /\ out.result.new_findings # <<>>
    /\ out.result.resolved_findings # <<>>
    /\ out.result.persistent_findings = <<>>
    /\ FilteredIds(1, 0) \cap FilteredIds(2, 0) # {}

\* C16: compare_scans(a, a, m) of an existing scan has no new finding, no
\* resolved finding, and total_persistent equal to the number of the scan's
\* findings of severity at least m.
C16_SelfComparison ==
    (ComparedExisting /\ out.scan_id_1 = out.scan_id_2) =>
        /\ out.result # None
        /\ total_new(out.result) = 0
        /\ total_resolved(out.result) = 0
        /\ total_persistent(out.result) =
               Cardinality(FilteredFindings(out.scan_id_1, out.min_severity))

\* a scan of three findings compared to itself, one of them under the filter
C16_Witness ==
    /\ out.op = "compare"
    /\ out.scan_id_1 = 2 /\ out.scan_id_2 = 2 /\ out.min_severity = 3
    /\ Cardinality(FilteredFindings(2, 0)) = 3
    /\ total_persistent(out.result) = 2

\* the rows of the three finding buckets of a result
BucketRows(r) ==
    {r.new_findings[i] : i \in 1..Len(r.new_findings)}
    \cup {r.resolved_findings[i] : i \in 1..Len(r.resolved_findings)}
    \cup {r.persistent_findings[i] : i \in 1..Len(r.persistent_findings)}

\* C17: with minimum severity m, every finding of the three buckets has
\* severity at least m, and a plugin of severity below m is in none of them,
\* whether it is in both scans or in one.
C17_SeverityFilter ==
    ComparedExisting =>
        /\ out.result # None
        /\ \A row \in BucketRows(out.result) :
              /\ row.severity_int >= out.min_severity
              /\ row.severity_int = db.severity_int[row.plugin_id]
        /\ \A p \in Plugins :
              db.severity_int[p] < out.min_severity =>
                  p \notin {row.plugin_id : row \in BucketRows(out.result)}

\* filter 3: plugin 100 (severity 1) is in both scans, plugin 101 (severity 2)
\* in the candidate only, plugin 102 (severity 3) in both and reported
C17_Witness ==
    /\ out.op = "compare"
    /\ out.scan_id_1 = 1 /\ out.scan_id_2 = 2 /\ out.min_severity = 3
    /\ db.severity_int = [p \in Plugins |-> p - 99]
    /\ db.findings = ({1} \X {100, 102}) \cup ({2} \X {100, 101, 102})
    /\ BucketIds(out.result.persistent_findings) = {102}
    /\ out.result.new_findings = <<>>

\* the host ids of the rows of a bucket of hosts
BucketHosts(rows) == {rows[i].host_id : i \in 1..Len(rows)}

\* the hosts linked to any finding of a scan
LinkedHosts(s) == {l[3] : l \in {x \in db.links : x[1] = s}}

\* C18: for two existing scans, new_hosts are the hosts linked to a finding of
\* the candidate and to none of the base, removed_hosts those linked to a
\* finding of the base and to none of the candidate, persistent_hosts those
\* linked to findings of both; each host is listed once.
C18_HostClassification ==
    ComparedExisting =>
        LET A == LinkedHosts(out.scan_id_1)
            B == LinkedHosts(out.scan_id_2)
            r == out.result
        IN /\ r # None
           /\ BucketHosts(r.new_hosts) = B \ A
           /\ BucketHosts(r.removed_hosts) = A \ B
           /\ BucketHosts(r.persistent_hosts) = A \cap B
           /\ Len(r.new_hosts) = Cardinality(B \ A)
           /\ Len(r.removed_hosts) = Cardinality(A \ B)
           /\ Len(r.persistent_hosts) = Cardinality(A \cap B)

\* A hosts {H1, H2}, B hosts {H1, H3}, H1 under two findings of B:
\* new = {H3}, removed = {H2}, persistent = {H1}
C18_Witness ==
    /\ out.op = "compare"
    /\ out.scan_id_1 = 1 /\ out.scan_id_2 = 2
    /\ LinkedHosts(1) = {1, 2} /\ LinkedHosts(2) = {1, 3}
    /\ {<<2, 100, 1>>, <<2, 101, 1>>} \subseteq db.links
    /\ BucketHosts(out.result.new_hosts) = {3}
    /\ BucketHosts(out.result.removed_hosts) = {2}
    /\ BucketHosts(out.result.persistent_hosts) = {1}

\* C19: a call of compare_scans in which the base scan id, the candidate scan
\* id or both are not in the store returns None, raises nothing, and leaves
\* the store as it was.
C19_Step ==
    (/\ out.op = "none"
     /\ out'.op = "compare"
     /\ (out'.scan_id_1 \notin db.scans \/ out'.scan_id_2 \notin db.scans))
    => /\ out'.result = None
       /\ ~out'.raised
       /\ db' = db

C19_MissingScanGivesNone == [][C19_Step]_vars

\* the candidate is missing, the base has findings
C19_Witness ==
    /\ out.op = "compare"
    /\ out.scan_id_1 = 1 /\ out.scan_id_2 = MissingScan
    /\ FilteredFindings(1, 0) # {}
    /\ out.result = None

\* the scans in which the host of an address is linked to a finding
AppearedIn(address) ==
    {l[1] : l \in {x \in db.links : ip_address(x[3]) = address}}

\* C20: get_host_vulnerability_history returns None for an address no host row
\* has; for a known address it returns one snapshot for each scan in which the
\* host appeared, and no other, by scan date ascending.
C20_History ==
    out.op = "history" =>
        IF \A h \in db.hosts : ip_address(h) # out.ip_address
        THEN out.result = None
        ELSE /\ out.result # None
             /\ out.result.ip_address = out.ip_address
             /\ LET sn == out.result.scans
                IN /\ {sn[i].scan_id : i \in 1..Len(sn)} = AppearedIn(out.ip_address)
                   /\ Len(sn) = Cardinality(AppearedIn(out.ip_address))
                   /\ \A i \in 1..Len(sn) :
                         sn[i].scan_date = db.created_at[sn[i].scan_id]
                   /\ \A i, j \in 1..Len(sn) :
                         i < j => sn[i].scan_date <= sn[j].scan_date

\* a host in both scans, scan 2 imported before scan 1: its snapshot is first
C20_Witness ==
    /\ out.op = "history"
    /\ out.result # None
    /\ Len(out.result.scans) = 2
    /\ out.result.scans[1].scan_id = 2
    /\ out.result.scans[1].scan_date < out.result.scans[2].scan_date
    /\ out.result.scans[2].finding_count = 2

\* the row save_session writes from main's variables
FinalRow ==
    [session_start |-> isoformat(session_start_time),
     reviewed_count |-> Len(reviewed_total),
     completed_count |-> Len(completed_total),
     skipped_count |-> Len(skipped_total), open_rows |-> 1]

\* C25: when a finalization removes the session row, on the back path and on
\* the exit path, the row holds the final counters and the scan's
\* last-reviewed timestamp has been updated; apart from a declined resume, a
\* session row is removed by nothing but such a finalization.
C25_Step ==
    /\ (pc \in {"loop_delete", "fin_delete"} /\ pc' # pc) =>
           /\ sessions[scan_id] = FinalRow
           /\ last_reviewed_at[scan_id] = now
           /\ sessions'[scan_id] = NoSession
    /\ \A s \in Scans :
           (sessions[s] # NoSession /\ sessions'[s] = NoSession /\ pc # "resume_prompt") =>
               pc \in {"loop_delete", "fin_delete"} /\ s = scan_id

C26_Step ==
    /\ (pc = "finding_view" /\ pc' = "file_list" /\ completed_total' = completed_total) =>
           /\ UNCHANGED <<review_state, sessions, last_reviewed_at>>
           /\ reviewed_total' = Append(reviewed_total, chosen)
           /\ UNCHANGED skipped_total
    /\ (completed_total' # completed_total /\ completed_total' # <<>>) =>
           /\ Len(completed_total') = Len(completed_total) + 1
           /\ Len(calls') = 1
           /\ calls'[1].op = "mark" /\ calls'[1].result
           /\ review_state'[calls'[1].f] = "completed"
           /\ UNCHANGED reviewed_total

C26_BackIsNotPersisted == [][C26_Step]_vars

\* a finding viewed and left by back, still pending, and another one marked
C26_Witness ==
    /\ pc = "file_list"
    /\ Len(reviewed_total) = 1
    /\ review_state[reviewed_total[1]] = "pending"
    /\ Len(completed_total) = 1
    /\ completed_total[1] # reviewed_total[1]

\* positions of main after the final save_session of a scan
Saved == {"loop_stats", "loop_delete", "fin_stats", "fin_delete"}

\* C29 (as claimed): the counters saved at the finalization of a resumed
\* session are at least the counters of the session that was resumed plus the
\* activity of this run.
C29_CountersCumulative ==
    (entry = "resumed" /\ pc \in Saved) =>
        /\ sessions[scan_id].reviewed_count >=
               previous_session.reviewed_count + Len(reviewed_total)
        /\ sessions[scan_id].completed_count >=
               previous_session.completed_count + Len(completed_total)
        /\ sessions[scan_id].skipped_count >=
               previous_session.skipped_count + Len(skipped_total)

\* C30 (as claimed): the start saved for a scan that was entered without a
\* session, or with the restart chosen, is not the start restored from the
\* session of another scan.
C30_StartNotFromOtherScan ==
    (entry \in {"fresh", "restarted"} /\ pc \in Saved) =>
        \A s \in Scans \ {scan_id} :
            sessions[scan_id].session_start # OldSession(s).session_start

\* the number of rows of a bucket that have severity sv
RowsOfSeverity(rows, sv) ==
    Cardinality({i \in 1..Len(rows) : rows[i].severity_int = sv})

\* a per-severity count map agrees with the list of its bucket
CountsAgree(counts, rows) ==
    /\ DOMAIN counts \subseteq Severities
    /\ \A sv \in Severities : dict_get(counts, sv) = RowsOfSeverity(rows, sv)
    /\ dict_get(counts, 0) + dict_get(counts, 1) + dict_get(counts, 2)
         + dict_get(counts, 3) + dict_get(counts, 4) = Len(rows)

\* C27: in every result of compare_scans, for each of the three finding
\* buckets and every severity 0..4, the count recorded for the severity
\* (absent meaning 0) is the number of the bucket's findings of that severity,
\* and the counts add up to total_new, total_resolved and total_persistent.
C27_SeverityCounts ==
    (out.op = "compare" /\ out.result # None) =>
        LET r == out.result
        IN /\ CountsAgree(r.new_by_severity, r.new_findings)
           /\ CountsAgree(r.resolved_by_severity, r.resolved_findings)
           /\ CountsAgree(r.persistent_by_severity, r.persistent_findings)
           /\ total_new(r) = Len(r.new_findings)
           /\ total_resolved(r) = Len(r.resolved_findings)
           /\ total_persistent(r) = Len(r.persistent_findings)

\* three persistent findings, two of them of the same severity
C27_Witness ==
    /\ out.op = "compare"
    /\ out.result # None
    /\ total_persistent(out.result) = 3
    /\ DOMAIN out.result.persistent_by_severity = {2, 4}
    /\ out.result.persistent_by_severity[4] = 2
    /\ out.result.new_by_severity = <<>>

\* the number of hosts a finding affects in a scan
AffectedHosts(s, p) == Cardinality({l \in db.links : l[1] = s /\ l[2] = p})

\* C28: every persistent finding of a comparison of two existing scans carries
\* the row of the candidate scan (its affected-host count there), and every
\* resolved finding the row of the base scan.
C28_RowsFromCandidate ==
    ComparedExisting =>
        LET r == out.result
        IN /\ r # None
           /\ \A i \in 1..Len(r.persistent_findings) :
                 r.persistent_findings[i].affected_hosts =
                     AffectedHosts(out.scan_id_2, r.persistent_findings[i].plugin_id)
           /\ \A i \in 1..Len(r.resolved_findings) :
                 r.resolved_findings[i].affected_hosts =
                     AffectedHosts(out.scan_id_1, r.resolved_findings[i].plugin_id)

\* a persistent finding that affects one host in the base scan and three in
\* the candidate, and a resolved finding
C28_Witness ==
    /\ out.op = "compare"
    /\ out.scan_id_1 = 1 /\ out.scan_id_2 = 2
    /\ AffectedHosts(1, 100) = 1
    /\ Len(out.result.persistent_findings) = 1
    /\ out.result.persistent_findings[1].plugin_id = 100
    /\ out.result.persistent_findings[1].affected_hosts = 3
    /\ Len(out.result.resolved_findings) = 1

\* the ids a plugin_id field lists
IdsOf(field) == {<<field[i]>> : i \in 1..Len(field)} \ {<<Comma>>}

\* the number of the latest load and the document of each load so far
LoadNumber == IF out.op = "load_additional" THEN 2 ELSE 1
DocumentOf(l) == IF l = 1 THEN out.defaults ELSE out.document

\* <<l, i, id>>: entry i of the document of load l lists id, and the load of
\* that document did not fail
IdClaims ==
    {c \in (1..2) \X (1..(MaxDefaultEntries + MaxCustomEntries)) \X PluginIds :
        /\ out.op \in {"construct", "load_additional"}
        /\ c[1] <= LoadNumber
        /\ ~malformed(DocumentOf(c[1]))
        /\ c[2] <= Len(DocumentOf(c[1]).workflows)
        /\ c[3] \in IdsOf(DocumentOf(c[1]).workflows[c[2]].plugin_id)}

\* no later entry lists the id of the claim
Owns(c) ==
    /\ c \in IdClaims
    /\ ~\E l \in c[1]..LoadNumber :
         \E i \in 1..Len(DocumentOf(l).workflows) :
            /\ l > c[1] \/ i > c[2]
            /\ <<l, i, c[3]>> \in IdClaims

\* the entries that still own one of their ids, and all loaded entries
LiveEntries == {<<c[1], c[2]>> : c \in {x \in IdClaims : Owns(x)}}
LoadedEntries == {<<c[1], c[2]>> : c \in IdClaims}

\* C21: for every loaded document set, count() is the length of
\* get_all_workflows(), which lists no workflow twice, and is the number of
\* distinct workflows (the entries that still own an id), never the number of
\* registered keys: where no id is listed by two entries, every entry counts
\* exactly once, however many ids it lists.
C21_CountIsDistinctWorkflows ==
    out.op \in {"construct", "load_additional"} =>
        LET m == workflow_mapper.workflows
            all == get_all_workflows(m)
        IN /\ count(m) = Len(all)
           /\ \A i, j \in 1..Len(all) : all[i] = all[j] => i = j
           /\ count(m) = Cardinality(LiveEntries)
           /\ LiveEntries = LoadedEntries => count(m) = Cardinality(LoadedEntries)

\* one workflow with three ids and one with a single id: four keys, count 2
C21_Witness ==
    /\ out.op = "load_additional"
    /\ Len(out.defaults.workflows) = 1
    /\ out.defaults.workflows[1].plugin_id = <<"1", ",", "2", ",", "3">>
    /\ Len(out.document.workflows) = 1
    /\ out.document.workflows[1].plugin_id = <<"4">>
    /\ Cardinality(DOMAIN workflow_mapper.workflows) = 4
    /\ count(workflow_mapper.workflows) = 2
    /\ Len(get_all_workflows(workflow_mapper.workflows)) = 2

\* C22: after a document is loaded, every id of an entry's comma-separated
\* list that no later entry lists again is registered (has_workflow) and
\* get_workflow returns the entry's one workflow for each of them.
C22_ListResolvesToOneWorkflow ==
    (out.op \in {"construct", "load_additional"} /\ ~out.failed) =>
        LET m == workflow_mapper.workflows
            doc == out.document
        IN \A i \in 1..Len(doc.workflows) :
             \A a, b \in IdsOf(doc.workflows[i].plugin_id) :
                (Owns(<<LoadNumber, i, a>>) /\ Owns(<<LoadNumber, i, b>>)) =>
                    /\ has_workflow(m, a)
                    /\ get_workflow(m, a) = get_workflow(m, b)
                    /\ get_workflow(m, a) = Workflow(LoadNumber, i, doc.workflows[i])

\* a three-id entry is loaded and all three ids resolve to it
C22_Witness ==
    /\ out.op = "construct"
    /\ ~out.failed
    /\ Len(out.document.workflows) = 2
    /\ out.document.workflows[2].plugin_id = <<"1", ",", "2", ",", "3">>
    /\ \A id \in {<<"1">>, <<"2">>, <<"3">>} :
          /\ has_workflow(workflow_mapper.workflows, id)
          /\ get_workflow(workflow_mapper.workflows, id).index = 2
    /\ ~has_workflow(workflow_mapper.workflows, <<"4">>)

\* three default workflows of one id each, and a custom document of two
\* single-id entries of which exactly one redefines a default id
SupplementExample ==
    /\ out.op = "load_additional"
    /\ ~malformed(out.defaults) /\ ~malformed(out.document)
    /\ Len(out.defaults.workflows) = 3
    /\ Len(out.document.workflows) = 2
    /\ \A i \in 1..3 : out.defaults.workflows[i].plugin_id \in PluginIds
    /\ \A i \in 1..2 : out.document.workflows[i].plugin_id \in PluginIds
    /\ \A i, j \in 1..3 : i # j =>
          out.defaults.workflows[i].plugin_id # out.defaults.workflows[j].plugin_id
    /\ out.document.workflows[1].plugin_id # out.document.workflows[2].plugin_id
    /\ Cardinality({i \in 1..2 : \E j \in 1..3 :
          out.document.workflows[i].plugin_id = out.defaults.workflows[j].plugin_id}) = 1

\* C23: after the custom document is loaded on top of the defaults, every id
\* the custom document lists resolves to a workflow of the custom document,
\* every other id resolves as before, and in the example (three defaults, a
\* custom document redefining one of their ids and adding a new one) count()
\* is 4.
C23_CustomOverridesDefault ==
    (out.op = "load_additional" /\ ~out.failed) =>
        LET m == workflow_mapper.workflows
            custom == UNION {IdsOf(out.document.workflows[i].plugin_id) :
                                i \in 1..Len(out.document.workflows)}
        IN /\ \A id \in custom :
                /\ has_workflow(m, id)
                /\ get_workflow(m, id).load = 2
                /\ id \in IdsOf(get_workflow(m, id).plugin_id)
           /\ \A id \in PluginIds \ custom :
                get_workflow(m, id) = get_workflow(out.before, id)
           /\ SupplementExample => count(m) = 4

\* the example is loaded: count() is 4 and the redefined id is the custom one
C23_Witness ==
    /\ SupplementExample
    /\ count(workflow_mapper.workflows) = 4
    /\ count(out.before) = 3
    /\ has_workflow(out.before, <<"2">>)
    /\ get_workflow(out.before, <<"2">>).load = 1
    /\ get_workflow(workflow_mapper.workflows, <<"2">>).load = 2

\* C24: a load of a malformed document (unparseable, or an entry without a
\* required field) reports 0 and registers nothing: get_workflow,
\* has_workflow and count() answer as before the load, and a mapper built
\* from such a document is empty.
C24_MalformedLoadIsAtomic ==
    (out.op \in {"construct", "load_additional"} /\ malformed(out.document)) =>
        LET m == workflow_mapper.workflows
        IN /\ out.count = 0
           /\ out.failed
           /\ \A id \in PluginIds :
                /\ has_workflow(m, id) = has_workflow(out.before, id)
                /\ get_workflow(m, id) = get_workflow(out.before, id)
           /\ count(m) = count(out.before)
           /\ out.op = "construct" => count(m) = 0

\* a custom document whose second entry lacks its plugin_id is loaded on top
\* of two defaults; its first entry would have registered a new id
C24_Witness ==
    /\ out.op = "load_additional"
    /\ Len(out.document.workflows) = 2
    /\ out.document.workflows[1].plugin_id = <<"4">>
    /\ out.document.workflows[2].plugin_id = MissingField
    /\ count(out.before) = 2
    /\ ~has_workflow(out.before, <<"4">>)
    /\ out.count = 0

====
